---- MODULE Spec2Model ----
(***************************************************************************)
(* Session/resource lifecycle manager and dispatch gateway of the          *)
(* Playwright MCP server (src/server.js, the session-based variant at      *)
(* lines 980-2021, and the HTTP gateway of the fresh-context variant at    *)
(* lines 2610-2716).                                                       *)
(*                                                                         *)
(* JavaScript is single-threaded: a handler runs without interruption up   *)
(* to its next `await`.  Every action below is one such run: from the      *)
(* resumption of an await (or the arrival of a request, timer or event) up *)
(* to the next await the code reaches.  The outcome of an awaited engine   *)
(* operation (resolve or reject) is chosen by the environment.             *)
(*                                                                         *)
(* Strings that the code parses or builds (session keys, hostnames) are    *)
(* sequences of one-character strings; Date.now() is the variable now, in  *)
(* milliseconds.                                                           *)
(***************************************************************************)
EXTENDS Integers, Sequences, FiniteSets, TLC

(***************************************************************************)
(* Bounds of the model.                                                    *)
(***************************************************************************)
NumCallers == 2      \* clients with a request in flight at the same time
MaxCalls == 4        \* requests started in one behaviour
WarmUp == 2          \* the first WarmUp requests run one at a time
MaxEnv == 1          \* environment events in one behaviour: clock steps, idle
                     \* periods, browser crashes, rejected engine operations
MaxHostLen == 3      \* characters of a hostname drawn for the key derivation

Callers == 1..NumCallers

(***************************************************************************)
(* Program constants.                                                      *)
(***************************************************************************)
MAX_SESSIONS == 3

DEFAULT == <<"d", "e", "f", "a", "u", "l", "t">>
AUTO_ == <<"a", "u", "t", "o", "_">>
DEFAULT_ == DEFAULT \o <<"_">>

KEY_ONLAND == AUTO_ \o <<"w", "w", "w", "_", "o", "n", "l", "a", "n", "d", "_", "c", "a">>
KEY_HOUSESIGMA == AUTO_ \o <<"h", "o", "u", "s", "e", "s", "i", "g", "m", "a", "_", "c", "o", "m">>
KEY_TORONTOMLS == AUTO_ \o <<"w", "w", "w", "_", "t", "o", "r", "o", "n", "t", "o", "m", "l", "s", "_", "n", "e", "t">>

\* SESSION_TIMEOUTS[sessionId] || SESSION_TIMEOUTS['default']
SESSION_TIMEOUTS(sessionId) ==
  IF sessionId = KEY_ONLAND THEN 3 * 60 * 1000
  ELSE IF sessionId = KEY_HOUSESIGMA THEN 8 * 60 * 1000
  ELSE IF sessionId = KEY_TORONTOMLS THEN 10 * 60 * 1000
  ELSE 5 * 60 * 1000

\* An idle period of the model: just longer than the default timeout.
IdlePeriod == SESSION_TIMEOUTS(DEFAULT) + 1

(***************************************************************************)
(* Strings.                                                                *)
(***************************************************************************)
DigitChars == <<"0", "1", "2", "3", "4", "5", "6", "7", "8", "9">>

Alnum ==
  {"a", "b", "c", "d", "e", "f", "g", "h", "i", "j", "k", "l", "m",
   "n", "o", "p", "q", "r", "s", "t", "u", "v", "w", "x", "y", "z",
   "A", "B", "C", "D", "E", "F", "G", "H", "I", "J", "K", "L", "M",
   "N", "O", "P", "Q", "R", "S", "T", "U", "V", "W", "X", "Y", "Z",
   "0", "1", "2", "3", "4", "5", "6", "7", "8", "9"}

\* String(n) for a non-negative integer: its decimal digits.
RECURSIVE Decimal(_)
Decimal(n) ==
  IF n < 10 THEN <<DigitChars[n + 1]>>
  ELSE Decimal(n \div 10) \o <<DigitChars[(n % 10) + 1]>>

\* A replace that leaves the hostname as it is.
ReplaceNonAlnum_Keep(hostname) == hostname

\* hostname.replace(/[^a-zA-Z0-9]/g, '_')
ReplaceNonAlnum(hostname) ==
  [i \in 1..Len(hostname) |-> IF hostname[i] \in Alnum THEN hostname[i] ELSE "_"]

(***************************************************************************)
(* Inputs.  A url is present or absent; a present url parses (new URL)     *)
(* to a hostname or makes new URL throw.  An absent or empty sessionId is  *)
(* the empty string, which JavaScript treats as false.                     *)
(***************************************************************************)
NoUrl == [present |-> FALSE, parses |-> FALSE, hostname |-> <<>>]
UrlA == [present |-> TRUE, parses |-> TRUE, hostname |-> <<"a", ".", "i", "o">>]
UrlB == [present |-> TRUE, parses |-> TRUE, hostname |-> <<"b", ".", "i", "o">>]
BadUrl == [present |-> TRUE, parses |-> FALSE, hostname |-> <<>>]

NoSessionId == <<>>
\* args.timeout absent (0 is falsy as undefined is)
NoTimeout == 0
\* A caller that names the session of host a.io explicitly.
S1 == AUTO_ \o <<"a", "_", "i", "o">>

VARIABLES
  now,        \* Date.now()
  browser,    \* the module variable `browser`: 0 is null, else a browser id
  browsers,   \* browser id -> "connected" | "disconnecting" | "disconnected"
  sessions,   \* the Map `sessions`, in insertion order
  contexts,   \* context id -> [browser, st]; a context owns one page
  sweeps,     \* pending async callbacks of cleanupExpiredSessions
  calls,      \* caller -> the request it has in flight
  started,    \* requests started so far
  env,        \* environment events so far
  posts,      \* fresh-context variant: client -> its POST to the MCP endpoint
  shutdown,   \* gracefulShutdown: its position, and what it has closed
  currentPage \* single-page variant: the module variable `currentPage`
              \* (0: undefined)

vars == <<now, browser, browsers, sessions, contexts, sweeps, calls, started, env, posts, shutdown, currentPage>>


(***************************************************************************)
(* The Map `sessions`: a sequence of entries in insertion order.  An entry *)
(* is the session object {context, page, lastUsed} under its key; the page *)
(* of a context carries the context's id.                                  *)
(***************************************************************************)
Has(m, k) == \E i \in 1..Len(m) : m[i].key = k
IndexOf(m, k) == CHOOSE i \in 1..Len(m) : m[i].key = k
Get(m, k) == m[IndexOf(m, k)]
Delete(m, k) == SelectSeq(m, LAMBDA e : e.key # k)
Set(m, k, e) == IF Has(m, k) THEN [m EXCEPT ![IndexOf(m, k)] = e] ELSE Append(m, e)
Keys(m) == {m[i].key : i \in 1..Len(m)}
Contexts(m) == {m[i].context : i \in 1..Len(m)}

\* A use that leaves lastUsed as it was.
Touch_Keep(m, c, t) == m

\* session.lastUsed = t on the session object that owns context c: visible in
\* the Map only while that object is still an entry of it.
Touch(m, c, t) ==
  [i \in 1..Len(m) |-> IF m[i].context = c THEN [m[i] EXCEPT !.lastUsed = t] ELSE m[i]]

\* context.close() has been called on the contexts cs (not yet settled).
InvokeClose(ctxs, cs) ==
  [x \in DOMAIN ctxs |->
     IF x \in cs /\ ctxs[x].st = "open" THEN [ctxs[x] EXCEPT !.st = "closing"] ELSE ctxs[x]]

\* context.close() settled on context x: resolved (ok) or rejected.
SettleClose(ctxs, x, ok) ==
  IF ok THEN [ctxs EXCEPT ![x].st = "closed"] ELSE ctxs

(***************************************************************************)
(* Outcomes of awaited engine operations.  An operation on a healthy       *)
(* target resolves, or rejects as an environment event (Fault); on a dead  *)
(* target it rejects; where the outcome is a race it may do either.        *)
(***************************************************************************)
Healthy == IF env < MaxEnv THEN {TRUE, FALSE} ELSE {TRUE}
Fault(healthy, ok) == IF healthy /\ ~ok THEN 1 ELSE 0

\* A page operation: rejects on a closed context or a dead browser, races
\* with a close that is pending.
PageHealthy(x) ==
  /\ contexts[x].st = "open"
  /\ browsers[contexts[x].browser] = "connected"
PageOutcomes(x) ==
  IF PageHealthy(x) THEN Healthy
  ELSE IF contexts[x].st = "closing" /\ browsers[contexts[x].browser] = "connected"
    THEN {TRUE, FALSE}
  ELSE {FALSE}

\* browser.version(): resolves on a connected browser; on a dead one the
\* code expects a rejection, the engine may still answer.
VersionOutcomes(b) == IF browsers[b] = "connected" THEN {TRUE} ELSE {TRUE, FALSE}

\* browser.newContext(): rejects on a dead browser.
NewContextOutcomes(b) == IF browsers[b] = "connected" THEN Healthy ELSE {FALSE}

(***************************************************************************)
(* getSessionId                                                            *)
(***************************************************************************)
NavigationTools == {"navigate_to_url", "extract_housesigma_chart"}

\* A resolver that does not reuse the single existing session.
getSessionId_NoReuse(args, toolName) ==
  IF args.sessionId # <<>> THEN args.sessionId
  ELSE IF args.url.present /\ toolName \in NavigationTools
    THEN IF args.url.parses
           THEN AUTO_ \o ReplaceNonAlnum(args.url.hostname)
           ELSE DEFAULT
  ELSE IF Len(sessions) <= 1 THEN DEFAULT
  ELSE DEFAULT_ \o Decimal(now)

\* A resolver that always builds a key from the clock.
getSessionId_AlwaysMint(args, toolName) ==
  IF args.sessionId # <<>> THEN args.sessionId
  ELSE IF args.url.present /\ toolName \in NavigationTools
    THEN IF args.url.parses
           THEN AUTO_ \o ReplaceNonAlnum(args.url.hostname)
           ELSE DEFAULT
  ELSE DEFAULT_ \o Decimal(now)

\* A resolver that prefers the url of a navigation tool to the sessionId.
getSessionId_UrlFirst(args, toolName) ==
  IF args.url.present /\ toolName \in NavigationTools
    THEN IF args.url.parses
           THEN AUTO_ \o ReplaceNonAlnum(args.url.hostname)
           ELSE DEFAULT
  ELSE IF args.sessionId # <<>> THEN args.sessionId
  ELSE IF Len(sessions) = 0 THEN DEFAULT
  ELSE IF Len(sessions) = 1 THEN sessions[1].key
  ELSE DEFAULT_ \o Decimal(now)

getSessionId(args, toolName) ==
  IF args.sessionId # <<>> THEN args.sessionId
  ELSE IF args.url.present /\ toolName \in NavigationTools
    THEN IF args.url.parses
           THEN AUTO_ \o ReplaceNonAlnum(args.url.hostname)
           ELSE DEFAULT
  ELSE IF Len(sessions) = 0 THEN DEFAULT
  ELSE IF Len(sessions) = 1 THEN sessions[1].key
  ELSE DEFAULT_ \o Decimal(now)

\* getSessionId takes its last branch: no sessionId, no url of a navigation
\* tool, two or more sessions.
MintsKey(args, toolName) ==
  /\ args.sessionId = <<>>
  /\ ~(args.url.present /\ toolName \in NavigationTools)
  /\ Len(sessions) >= 2

(***************************************************************************)
(* cleanupExpiredSessions, up to the await of each callback: the scan, and *)
(* for every expired session the call of context.close().  The callback    *)
(* deletes the entry when its close has settled (SweepSettle).             *)
(***************************************************************************)
expiredSessions(m) ==
  {i \in 1..Len(m) : now - m[i].lastUsed > SESSION_TIMEOUTS(m[i].key)}

cleanupExpiredSessions(m, ctxs, sw) ==
  [contexts |-> InvokeClose(ctxs, {m[i].context : i \in expiredSessions(m)}),
   sweeps |-> sw \cup {[sessionId |-> m[i].key, context |-> m[i].context] :
                         i \in expiredSessions(m)}]

\* The context of the session that is registered under k and expired now.
ExpiredUnder(k) ==
  IF \E i \in expiredSessions(sessions) : sessions[i].key = k
    THEN Get(sessions, k).context
    ELSE 0

(***************************************************************************)
(* enforceSessionLimits: the scan for the oldest session.  0 is null.      *)
(***************************************************************************)
RECURSIVE OldestScan(_, _, _, _)
OldestScan(m, i, oldestIdx, oldestTime) ==
  IF i > Len(m) THEN oldestIdx
  ELSE IF m[i].lastUsed < oldestTime
    THEN OldestScan(m, i + 1, i, m[i].lastUsed)
    ELSE OldestScan(m, i + 1, oldestIdx, oldestTime)

\* A scan with the comparison reversed: it finds the most recently used
\* session.
RECURSIVE NewestScan(_, _, _, _)
NewestScan(m, i, newestIdx, newestTime) ==
  IF i > Len(m) THEN newestIdx
  ELSE IF m[i].lastUsed > newestTime
    THEN NewestScan(m, i + 1, i, m[i].lastUsed)
    ELSE NewestScan(m, i + 1, newestIdx, newestTime)

oldestSessionId_Newest(m) ==
  IF Len(m) >= MAX_SESSIONS THEN NewestScan(m, 1, 0, -1) ELSE 0

oldestSessionId(m) ==
  IF Len(m) >= MAX_SESSIONS THEN OldestScan(m, 1, 0, now) ELSE 0

(***************************************************************************)
(* Requests.                                                               *)
(***************************************************************************)
\* The object a tool returns as the text of its result.  Only
\* extract_housesigma_chart's is modelled: success, error and chartData are
\* its fields (chartData: the index of the captured response it carries, 0:
\* the field is absent); captured and fault are history: how many chart API
\* responses the page's response listener captured, and whether a page
\* operation threw.
NoPayload ==
  [tool |-> "", success |-> FALSE, error |-> "", chartData |-> 0,
   captured |-> 0, fault |-> FALSE]

IdleCall ==
  [pc |-> "idle", method |-> "", name |-> "",
   args |-> [sessionId |-> <<>>, url |-> NoUrl, timeout |-> NoTimeout],
   sessionId |-> <<>>, session |-> 0, victim |-> <<>>, browserInstance |-> 0,
   context |-> 0, page |-> 0, closes |-> {},
   \* the page operation in progress: its timeout and the fixed wait after it
   timeout |-> 0, wait |-> 0,
   \* the response: result or error, HTTP status, JSON-RPC error code
   outcome |-> "", status |-> 0, code |-> 0, payload |-> NoPayload,
   responses |-> 0,
   \* why the request failed ("": it did not)
   cause |-> "",
   \* history: no other tool call has been in progress since this one began
   alone |-> TRUE,
   \* history of the request in flight: the context of the session that the
   \* expiry scan at its start found expired under its key (0: none), and
   \* whether getSessionId built its key from the clock
   expired |-> 0, minted |-> FALSE,
   \* history: the browser whose version() probe threw in this request's
   \* ensureBrowser (0: none)
   stale |-> 0,
   \* history: enforceSessionLimits of this request chose a victim that was
   \* not expired
   evictedLive |-> FALSE]

\* The stdio client and the HTTP clients.
Transport(c) == IF c = 1 THEN "sdk" ELSE "http"

Args(sessionId, url) == [sessionId |-> sessionId, url |-> url, timeout |-> NoTimeout]

ToolCalls ==
  {[name |-> "navigate_to_url", args |-> Args(NoSessionId, UrlA)],
   [name |-> "navigate_to_url", args |-> Args(NoSessionId, UrlB)],
   [name |-> "navigate_to_url", args |-> Args(S1, UrlB)],
   [name |-> "extract_housesigma_chart", args |-> Args(NoSessionId, UrlA)],
   [name |-> "get_page_content", args |-> Args(NoSessionId, NoUrl)],
   [name |-> "click_element", args |-> Args(NoSessionId, NoUrl)],
   [name |-> "onland_property_search", args |-> Args(NoSessionId, NoUrl)],
   [name |-> "cleanup_resources", args |-> Args(S1, NoUrl)],
   [name |-> "cleanup_resources", args |-> Args(NoSessionId, NoUrl)]}

\* The names of toolsList, the answer to tools/list.
toolsList ==
  {"navigate_to_url", "wait_for_content", "fill_form", "click_element",
   "get_page_content", "capture_screenshot", "extract_housesigma_chart",
   "onland_property_search"}

\* The cases of the tool switch.
DispatchedTools ==
  {"navigate_to_url", "wait_for_content", "fill_form", "click_element",
   "get_page_content", "capture_screenshot", "extract_housesigma_chart"}

\* click_element: `args.timeout || 60000` in the SDK handler,
\* `args.timeout || 30000` in the HTTP handler.
clickTimeout(transport, args) ==
  IF args.timeout # 0 THEN args.timeout
  ELSE IF transport = "sdk" THEN 60000 ELSE 30000

\* navigate_to_url: page.goto with timeout 30000 in both handlers.
gotoTimeout == 30000

\* navigate_to_url: page.waitForTimeout(3000) after goto in the SDK handler,
\* page.waitForTimeout(2000) in the HTTP handler.
navigateWait(transport) == IF transport = "sdk" THEN 3000 ELSE 2000

\* The JSON-RPC error codes of the HTTP handler.
INTERNAL_ERROR == 0 - 32603
METHOD_NOT_FOUND == 0 - 32601

IdlePost == [pc |-> "idle", kind |-> "", status |-> 0, ended |-> 0, outcome |-> ""]

\* The process before a termination signal.  registered: the contexts of the
\* sessions registered when the signal arrived; closes: the closes that
\* forceCleanupAll awaits; handle: the browser handle when forceCleanupAll
\* tested it; attempted: the browser it called close() on; exitCode: the
\* argument of process.exit (-1: the process has not exited).
Running ==
  [pc |-> "running", registered |-> {}, closes |-> {}, handle |-> 0,
   attempted |-> 0, exitCode |-> 0 - 1]

Init ==
  /\ now = 0
  /\ browser = 0
  /\ browsers = <<>>
  /\ sessions = <<>>
  /\ contexts = <<>>
  /\ sweeps = {}
  /\ calls = [c \in Callers |-> IdleCall]
  /\ started = 0
  /\ env = 0
  /\ posts = [c \in Callers |-> IdlePost]
  /\ shutdown = Running
  /\ currentPage = 0

(***************************************************************************)
(* The clock.                                                              *)
(***************************************************************************)
Tick ==
  /\ env < MaxEnv
  /\ env' = env + 1
  /\ now' = now + 1
  /\ UNCHANGED <<browser, browsers, sessions, contexts, sweeps, calls, started, posts, shutdown, currentPage>>

Idle ==
  /\ env < MaxEnv
  /\ env' = env + 1
  /\ now' = now + IdlePeriod
  /\ UNCHANGED <<browser, browsers, sessions, contexts, sweeps, calls, started, posts, shutdown, currentPage>>

(***************************************************************************)
(* Responding.  The SDK sends one response for a handler that returned or  *)
(* threw; the HTTP handler ends the response itself.                       *)
(***************************************************************************)
Respond(rec, outcome, status, code, cause) ==
  [IdleCall EXCEPT !.pc = "done", !.outcome = outcome, !.status = status,
                   !.code = code, !.cause = cause,
                   !.responses = rec.responses + 1]

\* The handler's result, or the error of the try around the tool switch:
\* over HTTP a 200 whose error object has code -32603 and the message
\* `Tool execution failed: ...`; over stdio the handler throws and the SDK
\* builds the error response.
ToolDone(c, rec, ok, cause) ==
  IF ok
    THEN Respond(rec, "result", IF Transport(c) = "http" THEN 200 ELSE 0, 0, "")
    ELSE Respond(rec, "error", IF Transport(c) = "http" THEN 200 ELSE 0,
                 IF Transport(c) = "http" THEN INTERNAL_ERROR ELSE 0, cause)

\* A handler of getSessionContext that reports success.
AcquireFailed_Swallowed(c, rec) ==
  Respond(rec, "result", IF Transport(c) = "http" THEN 200 ELSE 0, 0, "")

\* getSessionContext threw: the SDK handler rejects, the HTTP handler's outer
\* catch answers 500 with code -32603.
AcquireFailed(c, rec) ==
  Respond(rec, "error", IF Transport(c) = "http" THEN 500 ELSE 0,
          IF Transport(c) = "http" THEN INTERNAL_ERROR ELSE 0, "acquire")

(***************************************************************************)
(* getSessionContext, after the expiry scan and the lookup: from           *)
(* `await enforceSessionLimits()` up to its first await.                   *)
(***************************************************************************)
EnforceBegin(rec, m) ==
  LET v == oldestSessionId(m) IN
    IF v # 0
      THEN [rec EXCEPT !.pc = "evict", !.victim = m[v].key, !.session = m[v].context,
                       !.evictedLive = v \notin expiredSessions(m)]
      ELSE [rec EXCEPT !.pc = "enforce", !.victim = <<>>, !.session = 0]

EnforceCloses(m) ==
  LET v == oldestSessionId(m) IN IF v # 0 THEN {m[v].context} ELSE {}

\* ensureBrowser up to its first await: the probe of an existing handle, or
\* the launch.
EnsureBegin(rec) ==
  IF browser # 0
    THEN [rec EXCEPT !.pc = "version", !.browserInstance = browser]
    ELSE [rec EXCEPT !.pc = "launch", !.browserInstance = 0]

\* The handler once getSessionContext has returned {context, page}: the tool
\* switch up to the await of the page operation, or `Unknown tool`.
ExecBegin(c, rec, page) ==
  IF rec.name \in DispatchedTools
    THEN [rec EXCEPT !.pc = "exec", !.page = page, !.session = 0, !.context = 0,
                     !.browserInstance = 0, !.victim = <<>>,
                     !.timeout = IF rec.name = "click_element"
                                   THEN clickTimeout(Transport(c), rec.args)
                                 ELSE IF rec.name = "navigate_to_url" THEN gotoTimeout
                                 ELSE 0,
                     !.wait = IF rec.name = "navigate_to_url"
                                THEN navigateWait(Transport(c)) ELSE 0]
    ELSE ToolDone(c, [rec EXCEPT !.page = page], FALSE, "unknownTool")

(***************************************************************************)
(* A tools/call request arrives: getSessionId, then cleanup_resources or   *)
(* getSessionContext up to the first await.                                *)
(***************************************************************************)
\* The requests in progress when client c starts one: they are no longer
\* alone.
Overlapped(c) ==
  [d \in Callers |->
     IF d # c /\ calls[d].pc \notin {"idle", "done"}
       THEN [calls[d] EXCEPT !.alone = FALSE] ELSE calls[d]]

CleanupBegin(c, rec) ==
  IF rec.args.sessionId # <<>> /\ Has(sessions, rec.args.sessionId)
    THEN LET x == Get(sessions, rec.args.sessionId).context IN
           /\ calls' = [Overlapped(c) EXCEPT ![c] =
                          [rec EXCEPT !.pc = "closeOne", !.session = x]]
           /\ contexts' = InvokeClose(contexts, {x})
    ELSE \* forceCleanupAll: close() on every session, then await allSettled
         /\ calls' = [Overlapped(c) EXCEPT ![c] =
                        [rec EXCEPT !.pc = "closeAll", !.closes = Contexts(sessions)]]
         /\ contexts' = InvokeClose(contexts, Contexts(sessions))

getSessionContextBegin(c, rec) ==
  LET cl == cleanupExpiredSessions(sessions, contexts, sweeps) IN
    /\ sweeps' = cl.sweeps
    /\ IF Has(sessions, rec.sessionId)
         THEN /\ calls' = [Overlapped(c) EXCEPT ![c] =
                   [rec EXCEPT !.pc = "probe",
                               !.session = Get(sessions, rec.sessionId).context]]
              /\ contexts' = cl.contexts
         ELSE /\ calls' = [Overlapped(c) EXCEPT ![c] = EnforceBegin(rec, sessions)]
              /\ contexts' = InvokeClose(cl.contexts, EnforceCloses(sessions))

InFlight(c) == calls[c].pc \notin {"idle", "done"}

\* A client sends a request when it has none in flight; requests of different
\* clients overlap once the warm-up requests are over.
MayStart(c) ==
  /\ ~InFlight(c)
  /\ started < MaxCalls
  /\ (\E d \in Callers : InFlight(d)) => started > WarmUp

StartToolCall(c) ==
  /\ MayStart(c)
  /\ started' = started + 1
  /\ \E tc \in ToolCalls :
       LET rec == [IdleCall EXCEPT
                     !.method = "tools/call", !.name = tc.name, !.args = tc.args,
                     !.sessionId = getSessionId(tc.args, tc.name),
                     !.alone = \A d \in Callers : d = c \/ ~InFlight(d),
                     !.minted = MintsKey(tc.args, tc.name),
                     !.expired = ExpiredUnder(getSessionId(tc.args, tc.name))]
       IN IF tc.name = "cleanup_resources"
            THEN CleanupBegin(c, rec) /\ UNCHANGED sweeps
            ELSE getSessionContextBegin(c, rec)
  /\ UNCHANGED <<now, browser, browsers, sessions, env, posts, shutdown, currentPage>>

(***************************************************************************)
(* The other requests of the MCP endpoint, answered without an await: a    *)
(* body that is not JSON (the outer catch answers 500), a request that is  *)
(* not JSON-RPC 2.0 (400), initialize, notifications/initialized (an empty *)
(* 200), tools/list, and an unknown method.  The fresh-context variant     *)
(* answers them with the same code (lines 2665-2699).                      *)
(***************************************************************************)
OtherRequests ==
  {"garbage", "not2.0", "initialize", "notifications/initialized", "tools/list",
   "unknown/method"}

PostAnswer(kind) ==
  IF kind = "garbage"
    THEN [outcome |-> "error", status |-> 500, code |-> INTERNAL_ERROR]
  ELSE IF kind = "not2.0" THEN [outcome |-> "error", status |-> 400, code |-> 0]
  ELSE IF kind = "notifications/initialized"
    THEN [outcome |-> "empty", status |-> 200, code |-> 0]
  ELSE IF kind = "unknown/method"
    THEN [outcome |-> "error", status |-> 200, code |-> METHOD_NOT_FOUND]
  ELSE [outcome |-> "result", status |-> 200, code |-> 0]

\* The answer to a request of the given kind, as the finished request of
\* client c.
OtherDone(c, kind) ==
  [Respond(IdleCall, PostAnswer(kind).outcome,
           IF Transport(c) = "http" THEN PostAnswer(kind).status ELSE 0,
           IF Transport(c) = "http" THEN PostAnswer(kind).code ELSE 0,
           IF PostAnswer(kind).outcome = "error" THEN kind ELSE "")
     EXCEPT !.method = kind]

\* A handler that runs the expiry scan before it answers.
StartOther_Sweeps(c) ==
  /\ MayStart(c)
  /\ started' = started + 1
  /\ \E kind \in (IF Transport(c) = "http" THEN OtherRequests ELSE {"tools/list"}) :
       calls' = [calls EXCEPT ![c] = OtherDone(c, kind)]
  /\ LET cl == cleanupExpiredSessions(sessions, contexts, sweeps) IN
       /\ contexts' = cl.contexts
       /\ sweeps' = cl.sweeps
  /\ UNCHANGED <<now, browser, browsers, sessions, env, posts, shutdown, currentPage>>

\* Over stdio the SDK answers initialize itself and hands tools/list to the
\* ListTools handler.
StartOther(c) ==
  /\ MayStart(c)
  /\ started' = started + 1
  /\ \E kind \in (IF Transport(c) = "http" THEN OtherRequests ELSE {"tools/list"}) :
       calls' = [calls EXCEPT ![c] = OtherDone(c, kind)]
  /\ UNCHANGED <<now, browser, browsers, sessions, contexts, sweeps, env, posts, shutdown, currentPage>>

(***************************************************************************)
(* getSessionContext: `await session.page.evaluate(() => true)` settles.   *)
(***************************************************************************)
ProbeSettle(c) ==
  LET rec == calls[c] IN
  /\ rec.pc = "probe"
  /\ \E ok \in PageOutcomes(rec.session) :
       /\ env' = env + Fault(PageHealthy(rec.session), ok)
       /\ IF ok
         THEN /\ sessions' = Touch(sessions, rec.session, now)
              /\ calls' = [calls EXCEPT ![c] = ExecBegin(c, rec, rec.session)]
              /\ contexts' = contexts
         ELSE LET m == Delete(sessions, rec.sessionId) IN
              /\ sessions' = m
              /\ calls' = [calls EXCEPT ![c] = EnforceBegin(rec, m)]
              /\ contexts' = InvokeClose(contexts, EnforceCloses(m))
  /\ UNCHANGED <<now, browser, browsers, sweeps, started, posts, shutdown, currentPage>>

(***************************************************************************)
(* enforceSessionLimits: `await session.context.close()` settles, the      *)
(* entry under the victim's key is deleted, and getSessionContext goes on  *)
(* to ensureBrowser.                                                       *)
(***************************************************************************)
EvictSettle(c) ==
  LET rec == calls[c] IN
  /\ rec.pc = "evict"
  /\ \E ok \in Healthy :
       /\ env' = env + Fault(TRUE, ok)
       /\ contexts' = SettleClose(contexts, rec.session, ok)
  /\ sessions' = Delete(sessions, rec.victim)
  /\ calls' = [calls EXCEPT ![c] = EnsureBegin(rec)]
  /\ UNCHANGED <<now, browser, browsers, sweeps, started, posts, shutdown, currentPage>>

\* `await enforceSessionLimits()` when it had nothing to close.
EnforceSettle(c) ==
  LET rec == calls[c] IN
  /\ rec.pc = "enforce"
  /\ calls' = [calls EXCEPT ![c] = EnsureBegin(rec)]
  /\ UNCHANGED <<now, browser, browsers, sessions, contexts, sweeps, started, env, posts, shutdown, currentPage>>

(***************************************************************************)
(* ensureBrowser                                                           *)
(***************************************************************************)
\* getSessionContext with the value ensureBrowser returned: newContext is
\* called on it (a TypeError when it is null).
NewContextBegin(c, rec, b) ==
  IF b = 0
    THEN AcquireFailed(c, rec)
    ELSE [rec EXCEPT !.pc = "newContext", !.browserInstance = b]

\* An ensureBrowser that lets the probe's error reach its caller.
VersionSettle_Propagates(c) ==
  LET rec == calls[c] IN
  /\ rec.pc = "version"
  /\ \E ok \in VersionOutcomes(rec.browserInstance) :
       IF ok
         THEN /\ calls' = [calls EXCEPT ![c] = NewContextBegin(c, rec, browser)]
              /\ browser' = browser
         ELSE /\ calls' = [calls EXCEPT ![c] = AcquireFailed(c, rec)]
              /\ browser' = 0
  /\ UNCHANGED <<now, browsers, sessions, contexts, sweeps, started, env, posts, shutdown, currentPage>>

\* `await browser.version()` settles: `return browser` reads the module
\* variable as it is now; a rejection sets it to null and launches.
VersionSettle(c) ==
  LET rec == calls[c] IN
  /\ rec.pc = "version"
  /\ \E ok \in VersionOutcomes(rec.browserInstance) :
       IF ok
         THEN /\ calls' = [calls EXCEPT ![c] = NewContextBegin(c, rec, browser)]
              /\ browser' = browser
         ELSE /\ calls' = [calls EXCEPT ![c] =
                   [rec EXCEPT !.pc = "launch", !.browserInstance = 0,
                               !.stale = rec.browserInstance]]
              /\ browser' = 0
  /\ UNCHANGED <<now, browsers, sessions, contexts, sweeps, started, env, posts, shutdown, currentPage>>

\* `await chromium.launch(BROWSER_CONFIG)` settles.  Starting a browser
\* process takes time: at least a millisecond has passed.
LaunchSettle(c) ==
  LET rec == calls[c] IN
  /\ rec.pc = "launch"
  /\ \E ok \in Healthy :
       /\ env' = env + Fault(TRUE, ok)
       /\ IF ok
         THEN /\ browsers' = Append(browsers, "connected")
              /\ now' = now + 1
              /\ browser' = Len(browsers) + 1
              /\ calls' = [calls EXCEPT ![c] = NewContextBegin(c, rec, Len(browsers) + 1)]
         ELSE /\ browsers' = browsers
              /\ now' = now
              /\ browser' = 0
              /\ calls' = [calls EXCEPT ![c] = AcquireFailed(c, rec)]
  /\ UNCHANGED <<sessions, contexts, sweeps, started, posts, shutdown, currentPage>>

(***************************************************************************)
(* getSessionContext: newContext, newPage, sessions.set                    *)
(***************************************************************************)
\* A getSessionContext that hands out the context of the first registered
\* session instead of opening one.
NewContextSettle_Shared(c) ==
  LET rec == calls[c] IN
  /\ rec.pc = "newContext"
  /\ \E ok \in NewContextOutcomes(rec.browserInstance) :
       /\ env' = env + Fault(browsers[rec.browserInstance] = "connected", ok)
       /\ IF ok
         THEN /\ now' = now + 1
              /\ contexts' = Append(contexts,
                   [browser |-> rec.browserInstance, st |-> "open"])
              /\ calls' = [calls EXCEPT ![c] =
                   [rec EXCEPT !.pc = "newPage",
                               !.context = IF Len(sessions) > 0
                                             THEN sessions[1].context
                                             ELSE Len(contexts) + 1]]
         ELSE /\ now' = now
              /\ contexts' = contexts
              /\ calls' = [calls EXCEPT ![c] = AcquireFailed(c, rec)]
  /\ UNCHANGED <<browser, browsers, sessions, sweeps, started, posts, shutdown, currentPage>>

\* Opening a context takes at least a millisecond too.
NewContextSettle(c) ==
  LET rec == calls[c] IN
  /\ rec.pc = "newContext"
  /\ \E ok \in NewContextOutcomes(rec.browserInstance) :
       /\ env' = env + Fault(browsers[rec.browserInstance] = "connected", ok)
       /\ IF ok
         THEN /\ now' = now + 1
              /\ contexts' = Append(contexts,
                   [browser |-> rec.browserInstance, st |-> "open"])
              /\ calls' = [calls EXCEPT ![c] =
                   [rec EXCEPT !.pc = "newPage", !.context = Len(contexts) + 1]]
         ELSE /\ now' = now
              /\ contexts' = contexts
              /\ calls' = [calls EXCEPT ![c] = AcquireFailed(c, rec)]
  /\ UNCHANGED <<browser, browsers, sessions, sweeps, started, posts, shutdown, currentPage>>

NewPageSettle(c) ==
  LET rec == calls[c] IN
  /\ rec.pc = "newPage"
  /\ \E ok \in PageOutcomes(rec.context) :
       /\ env' = env + Fault(PageHealthy(rec.context), ok)
       /\ IF ok
         THEN /\ sessions' = Set(sessions, rec.sessionId,
                   [key |-> rec.sessionId, context |-> rec.context,
                    page |-> rec.context, lastUsed |-> now])
              /\ calls' = [calls EXCEPT ![c] = ExecBegin(c, rec, rec.context)]
         ELSE /\ sessions' = sessions
              /\ calls' = [calls EXCEPT ![c] = AcquireFailed(c, rec)]
  /\ UNCHANGED <<now, browser, browsers, contexts, sweeps, started, posts, shutdown, currentPage>>

(***************************************************************************)
(* The tool's page operation settles.  click_element waits for its         *)
(* selector to be visible (page.waitForSelector, then page.click, both     *)
(* with the call's timeout): the page shows the selector after a delay or  *)
(* never, and the wait rejects with a TimeoutError when the timeout is     *)
(* reached first.                                                          *)
(***************************************************************************)
Never == 1000000
SelectorDelays == {0, 45000, Never}

\* extractHouseSigmaChartData: the chart API responses that the response
\* listener may have captured while the page loaded.
ChartResponses == {0, 1, 2}

\* extractHouseSigmaChartData returns an object on every path: the latest
\* captured response with success: true; success: false with the error
\* 'No chart API data was captured' when nothing was captured; success:
\* false with the error's message when a page operation threw (its catch).
extractHouseSigmaChartData(ok, captured) ==
  IF ~ok
    THEN [tool |-> "extract_housesigma_chart", success |-> FALSE,
          error |-> "error.message", chartData |-> 0,
          captured |-> captured, fault |-> TRUE]
  ELSE IF captured > 0
    THEN [tool |-> "extract_housesigma_chart", success |-> TRUE,
          error |-> "", chartData |-> captured,
          captured |-> captured, fault |-> FALSE]
  ELSE [tool |-> "extract_housesigma_chart", success |-> FALSE,
        error |-> "No chart API data was captured", chartData |-> 0,
        captured |-> captured, fault |-> FALSE]

ExecSettle(c) ==
  LET rec == calls[c] IN
  /\ rec.pc = "exec"
  /\ \E ok \in PageOutcomes(rec.page) :
       /\ env' = env + Fault(PageHealthy(rec.page), ok)
       /\ IF rec.name = "extract_housesigma_chart"
            THEN \E captured \in (IF ok THEN ChartResponses ELSE {0}) :
                   calls' = [calls EXCEPT ![c] =
                     [ToolDone(c, rec, TRUE, "") EXCEPT
                        !.payload = extractHouseSigmaChartData(ok, captured)]]
          ELSE IF ok /\ rec.name = "click_element"
            THEN \E delay \in SelectorDelays :
                   calls' = [calls EXCEPT ![c] =
                     ToolDone(c, rec, delay < rec.timeout, "timeout")]
            ELSE calls' = [calls EXCEPT ![c] = ToolDone(c, rec, ok, "page")]
  /\ UNCHANGED <<now, browser, browsers, sessions, contexts, sweeps, started, posts, shutdown, currentPage>>

(***************************************************************************)
(* cleanup_resources                                                       *)
(***************************************************************************)
\* One session: `await session.context.close()` settles inside the try; the
\* delete follows it in the try block.
CloseOneSettle(c) ==
  LET rec == calls[c] IN
  /\ rec.pc = "closeOne"
  /\ \E ok \in Healthy :
       /\ env' = env + Fault(TRUE, ok)
       /\ contexts' = SettleClose(contexts, rec.session, ok)
       /\ sessions' = IF ok THEN Delete(sessions, rec.args.sessionId) ELSE sessions
  /\ calls' = [calls EXCEPT ![c] = ToolDone(c, rec, TRUE, "")]
  /\ UNCHANGED <<now, browser, browsers, sweeps, started, posts, shutdown, currentPage>>

\* forceCleanupAll: Promise.allSettled settles, sessions.clear(), then
\* browser.close() is called on an existing handle.
CloseAllSettle(c) ==
  LET rec == calls[c] IN
  /\ rec.pc = "closeAll"
  /\ \E failed \in SUBSET rec.closes :
       /\ failed # {} => env < MaxEnv
       /\ env' = env + Fault(TRUE, failed = {})
       /\ contexts' = [x \in DOMAIN contexts |->
                         IF x \in rec.closes \ failed
                           THEN [contexts[x] EXCEPT !.st = "closed"] ELSE contexts[x]]
  /\ sessions' = <<>>
  /\ calls' = [calls EXCEPT ![c] =
       IF browser # 0
         THEN [rec EXCEPT !.pc = "browserClose", !.browserInstance = browser, !.closes = {}]
         ELSE ToolDone(c, rec, TRUE, "")]
  /\ UNCHANGED <<now, browser, browsers, sweeps, started, posts, shutdown, currentPage>>

\* A forceCleanupAll that closes the browser and keeps the handle.
BrowserCloseSettle_KeepsHandle(c) ==
  LET rec == calls[c] IN
  /\ rec.pc = "browserClose"
  /\ \E ok \in Healthy :
       /\ env' = env + Fault(TRUE, ok)
       /\ browsers' = IF ok /\ browsers[rec.browserInstance] = "connected"
                          THEN [browsers EXCEPT ![rec.browserInstance] = "disconnecting"]
                          ELSE browsers
  /\ browser' = browser
  /\ calls' = [calls EXCEPT ![c] = ToolDone(c, rec, TRUE, "")]
  /\ UNCHANGED <<now, sessions, contexts, sweeps, started, posts, shutdown, currentPage>>

\* `await browser.close()` settles: the handle is set to null either way.  A
\* closed browser emits 'disconnected'.
BrowserCloseSettle(c) ==
  LET rec == calls[c] IN
  /\ rec.pc = "browserClose"
  /\ \E ok \in Healthy :
       /\ env' = env + Fault(TRUE, ok)
       /\ browsers' = IF ok /\ browsers[rec.browserInstance] = "connected"
                          THEN [browsers EXCEPT ![rec.browserInstance] = "disconnecting"]
                          ELSE browsers
  /\ browser' = 0
  /\ calls' = [calls EXCEPT ![c] = ToolDone(c, rec, TRUE, "")]
  /\ UNCHANGED <<now, sessions, contexts, sweeps, started, posts, shutdown, currentPage>>

(***************************************************************************)
(* The periodic sweep (setInterval) and the callbacks of a sweep.          *)
(***************************************************************************)
PeriodicSweep ==
  /\ expiredSessions(sessions) # {}
  /\ LET cl == cleanupExpiredSessions(sessions, contexts, sweeps) IN
       /\ contexts' = cl.contexts
       /\ sweeps' = cl.sweeps
  /\ UNCHANGED <<now, browser, browsers, sessions, calls, started, env, posts, shutdown, currentPage>>

\* A callback that does not delete the entry.
SweepSettle_NoDelete ==
  \E t \in sweeps :
    /\ \E ok \in Healthy :
         /\ env' = env + Fault(TRUE, ok)
         /\ contexts' = SettleClose(contexts, t.context, ok)
    /\ sessions' = sessions
    /\ sweeps' = sweeps \ {t}
    /\ UNCHANGED <<now, browser, browsers, calls, started, posts, shutdown, currentPage>>

\* `await session.context.close()` of one callback settles (its rejection is
\* caught); the callback deletes the entry under its key.
SweepSettle ==
  \E t \in sweeps :
    /\ \E ok \in Healthy :
         /\ env' = env + Fault(TRUE, ok)
         /\ contexts' = SettleClose(contexts, t.context, ok)
    /\ sessions' = Delete(sessions, t.sessionId)
    /\ sweeps' = sweeps \ {t}
    /\ UNCHANGED <<now, browser, browsers, calls, started, posts, shutdown, currentPage>>

(***************************************************************************)
(* The browser process.                                                    *)
(***************************************************************************)
BrowserCrash ==
  \E b \in DOMAIN browsers :
    /\ browsers[b] = "connected"
    /\ env < MaxEnv
    /\ env' = env + 1
    /\ browsers' = [browsers EXCEPT ![b] = "disconnecting"]
    /\ UNCHANGED <<now, browser, sessions, contexts, sweeps, calls, started, posts, shutdown, currentPage>>

\* The 'disconnected' listener registered after the launch of b.
Disconnected ==
  \E b \in DOMAIN browsers :
    /\ browsers[b] = "disconnecting"
    /\ browsers' = [browsers EXCEPT ![b] = "disconnected"]
    /\ browser' = 0
    /\ sessions' = <<>>
    /\ UNCHANGED <<now, contexts, sweeps, calls, started, env, posts, shutdown, currentPage>>

Next ==
  \/ Tick
  \/ Idle
  \/ \E c \in Callers : StartToolCall(c)
  \/ \E c \in Callers : StartOther(c)
  \/ \E c \in Callers : ProbeSettle(c)
  \/ \E c \in Callers : EvictSettle(c)
  \/ \E c \in Callers : EnforceSettle(c)
  \/ \E c \in Callers : VersionSettle(c)
  \/ \E c \in Callers : LaunchSettle(c)
  \/ \E c \in Callers : NewContextSettle(c)
  \/ \E c \in Callers : NewPageSettle(c)
  \/ \E c \in Callers : ExecSettle(c)
  \/ \E c \in Callers : CloseOneSettle(c)
  \/ \E c \in Callers : CloseAllSettle(c)
  \/ \E c \in Callers : BrowserCloseSettle(c)
  \/ PeriodicSweep
  \/ SweepSettle
  \/ BrowserCrash
  \/ Disconnected

Spec == Init /\ [][Next]_vars

(***************************************************************************)
(* The server with its registry at capacity.  Three sessions have been     *)
(* created one after the other on the first browser (navigate_to_url for   *)
(* a.io and for b.io, then get_page_content, which got default_3), at      *)
(* times 2, 3 and 4; since then each of the first two has been reused by a *)
(* navigate_to_url to its host, or not.  One more request follows.         *)
(***************************************************************************)
InitAtCapacity ==
  /\ now = 4
  /\ browser = 1
  /\ browsers = <<"connected">>
  /\ contexts = [x \in 1..MAX_SESSIONS |-> [browser |-> 1, st |-> "open"]]
  /\ \E t1 \in {2, 4}, t2 \in {3, 4} :
       sessions =
         <<[key |-> AUTO_ \o ReplaceNonAlnum(UrlA.hostname),
            context |-> 1, page |-> 1, lastUsed |-> t1],
           [key |-> AUTO_ \o ReplaceNonAlnum(UrlB.hostname),
            context |-> 2, page |-> 2, lastUsed |-> t2],
           [key |-> DEFAULT_ \o Decimal(3),
            context |-> 3, page |-> 3, lastUsed |-> 4]>>
  /\ sweeps = {}
  /\ calls = [c \in Callers |-> IdleCall]
  /\ started = MaxCalls - 1
  /\ env = 0
  /\ posts = [c \in Callers |-> IdlePost]
  /\ shutdown = Running
  /\ currentPage = 0

SpecAtCapacity == InitAtCapacity /\ [][Next]_vars

(***************************************************************************)
(* The periodic sweep as a timer that keeps firing: setInterval runs       *)
(* cleanupExpiredSessions every 60 seconds for as long as the process      *)
(* lives, and the close that a callback of the sweep awaits settles.       *)
(***************************************************************************)
SpecSweep ==
  /\ InitAtCapacity
  /\ [][Next]_vars
  /\ WF_vars(PeriodicSweep)
  /\ WF_vars(SweepSettle)

(***************************************************************************)
(* gracefulShutdown: SIGINT or SIGTERM arrives, forceCleanupAll runs, then *)
(* process.exit(0).  After the exit nothing runs.                          *)
(***************************************************************************)
\* The signal handler up to the first await of forceCleanupAll: close() is
\* called on the context of every registered session.
Signal ==
  /\ shutdown.pc = "running"
  /\ shutdown' = [shutdown EXCEPT !.pc = "closeAll",
                                  !.registered = Contexts(sessions),
                                  !.closes = Contexts(sessions)]
  /\ contexts' = InvokeClose(contexts, Contexts(sessions))
  /\ UNCHANGED <<now, browser, browsers, sessions, sweeps, calls, started, env, posts, currentPage>>

\* A shutdown that exits as soon as the sessions are closed.
ShutdownCloseAllSettle_SkipsBrowser ==
  /\ shutdown.pc = "closeAll"
  /\ \E failed \in SUBSET shutdown.closes :
       /\ failed # {} => env < MaxEnv
       /\ env' = env + Fault(TRUE, failed = {})
       /\ contexts' = [x \in DOMAIN contexts |->
                         IF x \in shutdown.closes \ failed
                           THEN [contexts[x] EXCEPT !.st = "closed"] ELSE contexts[x]]
  /\ sessions' = <<>>
  /\ shutdown' = [shutdown EXCEPT !.pc = "exited", !.closes = {},
                                  !.handle = browser, !.exitCode = 0]
  /\ UNCHANGED <<now, browser, browsers, sweeps, calls, started, posts, currentPage>>

\* Promise.allSettled settles, sessions.clear(); browser.close() is called
\* on an existing handle; without one forceCleanupAll returns and the
\* process exits.
ShutdownCloseAllSettle ==
  /\ shutdown.pc = "closeAll"
  /\ \E failed \in SUBSET shutdown.closes :
       /\ failed # {} => env < MaxEnv
       /\ env' = env + Fault(TRUE, failed = {})
       /\ contexts' = [x \in DOMAIN contexts |->
                         IF x \in shutdown.closes \ failed
                           THEN [contexts[x] EXCEPT !.st = "closed"] ELSE contexts[x]]
  /\ sessions' = <<>>
  /\ shutdown' =
       IF browser # 0
         THEN [shutdown EXCEPT !.pc = "browserClose", !.closes = {},
                               !.handle = browser, !.attempted = browser]
         ELSE [shutdown EXCEPT !.pc = "exited", !.closes = {},
                               !.handle = 0, !.exitCode = 0]
  /\ UNCHANGED <<now, browser, browsers, sweeps, calls, started, posts, currentPage>>

\* `await browser.close()` settles, browser = null, forceCleanupAll
\* returns, process.exit(0).
ShutdownBrowserCloseSettle ==
  /\ shutdown.pc = "browserClose"
  /\ \E ok \in Healthy :
       /\ env' = env + Fault(TRUE, ok)
       /\ browsers' = IF ok /\ browsers[shutdown.attempted] = "connected"
                          THEN [browsers EXCEPT ![shutdown.attempted] = "disconnecting"]
                          ELSE browsers
  /\ browser' = 0
  /\ shutdown' = [shutdown EXCEPT !.pc = "exited", !.exitCode = 0]
  /\ UNCHANGED <<now, sessions, contexts, sweeps, calls, started, posts, currentPage>>

Alive == shutdown.pc # "exited"

NextShutdown ==
  \/ Alive /\ Tick
  \/ Alive /\ Idle
  \/ \E c \in Callers : Alive /\ StartToolCall(c)
  \/ \E c \in Callers : Alive /\ StartOther(c)
  \/ \E c \in Callers : Alive /\ ProbeSettle(c)
  \/ \E c \in Callers : Alive /\ EvictSettle(c)
  \/ \E c \in Callers : Alive /\ EnforceSettle(c)
  \/ \E c \in Callers : Alive /\ VersionSettle(c)
  \/ \E c \in Callers : Alive /\ LaunchSettle(c)
  \/ \E c \in Callers : Alive /\ NewContextSettle(c)
  \/ \E c \in Callers : Alive /\ NewPageSettle(c)
  \/ \E c \in Callers : Alive /\ ExecSettle(c)
  \/ \E c \in Callers : Alive /\ CloseOneSettle(c)
  \/ \E c \in Callers : Alive /\ CloseAllSettle(c)
  \/ \E c \in Callers : Alive /\ BrowserCloseSettle(c)
  \/ Alive /\ PeriodicSweep
  \/ Alive /\ SweepSettle
  \/ Alive /\ BrowserCrash
  \/ Alive /\ Disconnected
  \/ Signal
  \/ ShutdownCloseAllSettle
  \/ ShutdownBrowserCloseSettle

\* The closes that forceCleanupAll awaits settle (they resolve or reject),
\* and its continuations run.
SpecShutdown ==
  /\ InitAtCapacity
  /\ [][NextShutdown]_vars
  /\ WF_vars(ShutdownCloseAllSettle)
  /\ WF_vars(ShutdownBrowserCloseSettle)

(***************************************************************************)
(* The fresh-context variant's POST handler (lines 2660-2709).  Its catch  *)
(* block calls res.writeHead(500) and then builds the body from            *)
(* `request?.id`; `request` is a const of the try block, not in scope in   *)
(* the catch, so evaluating it throws a ReferenceError before res.end is   *)
(* called: the handler ends without having ended the response.             *)
(***************************************************************************)
FreshCatch(kind) ==
  [pc |-> "done", kind |-> kind, status |-> 500, ended |-> 0, outcome |-> ""]

FreshEnd(kind, outcome, status) ==
  [pc |-> "done", kind |-> kind, status |-> status, ended |-> 1, outcome |-> outcome]

FreshPost(c) ==
  /\ posts[c].pc \in {"idle", "done"}
  /\ started < MaxCalls
  /\ started' = started + 1
  /\ \E kind \in OtherRequests \cup {"tools/call"} :
       posts' = [posts EXCEPT ![c] =
         IF kind = "garbage" THEN FreshCatch(kind)
         ELSE IF kind = "tools/call"
           THEN [IdlePost EXCEPT !.pc = "handleRequest", !.kind = kind]
         ELSE FreshEnd(kind, PostAnswer(kind).outcome, PostAnswer(kind).status)]
  /\ UNCHANGED <<now, browser, browsers, sessions, contexts, sweeps, calls, env, shutdown, currentPage>>

\* `await server.handleRequest(request)` settles.
FreshHandleSettle(c) ==
  /\ posts[c].pc = "handleRequest"
  /\ \E ok \in BOOLEAN :
       posts' = [posts EXCEPT ![c] =
         IF ok THEN FreshEnd(posts[c].kind, "result", 200) ELSE FreshCatch(posts[c].kind)]
  /\ UNCHANGED <<now, browser, browsers, sessions, contexts, sweeps, calls, started, env, shutdown, currentPage>>

NextFresh ==
  \/ \E c \in Callers : FreshPost(c)
  \/ \E c \in Callers : FreshHandleSettle(c)

SpecFresh == Init /\ [][NextFresh]_vars

(***************************************************************************)
(* The single-page variant (src/server.js lines 1-140): one module-level   *)
(* `browser` and one `currentPage`, set by initBrowser, which every tool   *)
(* call awaits first.  The variant of src/unnamed/part_000 (ensureBrowser, *)
(* lines 137-143) is the same without the setUserAgent await.  The pages   *)
(* of this variant are the entries of contexts.                            *)
(***************************************************************************)
\* handleToolsCall after `await initBrowser()`: the tool's first page
\* operation is called on currentPage as it is now.
ToolBegin(rec) == [rec EXCEPT !.pc = "pageOperation", !.page = currentPage]

\* handleToolsCall is called: initBrowser up to its first await, or, when
\* browser is set, straight on to the tool.
handleToolsCall(c) ==
  /\ ~InFlight(c)
  /\ started < MaxCalls
  /\ started' = started + 1
  /\ LET rec == [IdleCall EXCEPT !.method = "tools/call", !.name = "navigate_to_url"] IN
       calls' = [calls EXCEPT ![c] =
         IF browser = 0 THEN [rec EXCEPT !.pc = "initLaunch"] ELSE ToolBegin(rec)]
  /\ UNCHANGED <<now, browser, browsers, sessions, contexts, sweeps, env, posts, shutdown, currentPage>>

\* `browser = await puppeteer.launch(...)` settles: the assignment, then
\* browser.newPage() is called.
InitLaunchSettle(c) ==
  LET rec == calls[c] IN
  /\ rec.pc = "initLaunch"
  /\ \E ok \in Healthy :
       /\ env' = env + Fault(TRUE, ok)
       /\ IF ok
         THEN /\ browsers' = Append(browsers, "connected")
              /\ browser' = Len(browsers) + 1
              /\ calls' = [calls EXCEPT ![c] =
                   [rec EXCEPT !.pc = "initNewPage", !.browserInstance = Len(browsers) + 1]]
         ELSE /\ browsers' = browsers
              /\ browser' = browser
              /\ calls' = [calls EXCEPT ![c] = Respond(rec, "error", 0, 0, "acquire")]
  /\ UNCHANGED <<now, sessions, contexts, sweeps, started, posts, shutdown, currentPage>>

\* `currentPage = await browser.newPage()` settles: the assignment, then
\* setUserAgent is called on the page.
InitNewPageSettle(c) ==
  LET rec == calls[c] IN
  /\ rec.pc = "initNewPage"
  /\ \E ok \in Healthy :
       /\ env' = env + Fault(TRUE, ok)
       /\ IF ok
         THEN /\ contexts' = Append(contexts,
                   [browser |-> rec.browserInstance, st |-> "open"])
              /\ currentPage' = Len(contexts) + 1
              /\ calls' = [calls EXCEPT ![c] = [rec EXCEPT !.pc = "initUserAgent"]]
         ELSE /\ contexts' = contexts
              /\ currentPage' = currentPage
              /\ calls' = [calls EXCEPT ![c] = Respond(rec, "error", 0, 0, "acquire")]
  /\ UNCHANGED <<now, browser, browsers, sessions, sweeps, started, posts, shutdown>>

\* `await currentPage.setUserAgent(...)` settles and initBrowser returns.
InitUserAgentSettle(c) ==
  LET rec == calls[c] IN
  /\ rec.pc = "initUserAgent"
  /\ \E ok \in Healthy :
       /\ env' = env + Fault(TRUE, ok)
       /\ calls' = [calls EXCEPT ![c] =
            IF ok THEN ToolBegin(rec) ELSE Respond(rec, "error", 0, 0, "acquire")]
  /\ UNCHANGED <<now, browser, browsers, sessions, contexts, sweeps, started, posts, shutdown, currentPage>>

\* The tool's page operation settles; on an undefined currentPage the call
\* was a TypeError.
PageOperationSettle(c) ==
  LET rec == calls[c] IN
  /\ rec.pc = "pageOperation"
  /\ calls' = [calls EXCEPT ![c] =
       IF rec.page = 0 THEN Respond(rec, "error", 0, 0, "page")
                       ELSE Respond(rec, "result", 0, 0, "")]
  /\ UNCHANGED <<now, browser, browsers, sessions, contexts, sweeps, started, env, posts, shutdown, currentPage>>

NextSinglePage ==
  \/ \E c \in Callers : handleToolsCall(c)
  \/ \E c \in Callers : InitLaunchSettle(c)
  \/ \E c \in Callers : InitNewPageSettle(c)
  \/ \E c \in Callers : InitUserAgentSettle(c)
  \/ \E c \in Callers : PageOperationSettle(c)

SpecSinglePage == Init /\ [][NextSinglePage]_vars

(***************************************************************************)
(* getSessionId by itself, on navigation-class calls without sessionId     *)
(* whose url parses to any hostname over a small alphabet: the first line  *)
(* of the tools/call handler, `const sessionId = getSessionId(args, name)`.*)
(***************************************************************************)
HostChars == {"a", "b", ".", "-"}

\* A hostname begins and ends with a letter or digit.
Hostnames ==
  {h \in UNION {[1..n -> HostChars] : n \in 1..MaxHostLen} :
     h[1] \in Alnum /\ h[Len(h)] \in Alnum}

UrlOf(hostname) == [present |-> TRUE, parses |-> TRUE, hostname |-> hostname]

Resolve(c) ==
  /\ \E toolName \in NavigationTools, hostname \in Hostnames :
       LET args == Args(NoSessionId, UrlOf(hostname)) IN
         calls' = [calls EXCEPT ![c] =
           [IdleCall EXCEPT !.pc = "resolved", !.method = "tools/call",
                            !.name = toolName, !.args = args,
                            !.sessionId = getSessionId(args, toolName)]]
  /\ UNCHANGED <<now, browser, browsers, sessions, contexts, sweeps, started, env, posts, shutdown, currentPage>>

NextResolve == \E c \in Callers : Resolve(c)

SpecResolve == Init /\ [][NextResolve]_vars

(***************************************************************************)
(* Properties.                                                             *)
(***************************************************************************)
Connected == {b \in DOMAIN browsers : browsers[b] = "connected"}

IsFallback(k) ==
  \/ k = DEFAULT
  \/ Len(k) > Len(DEFAULT_) /\ SubSeq(k, 1, Len(DEFAULT_)) = DEFAULT_

IsUrlDerived(k) == Len(k) > Len(AUTO_) /\ SubSeq(k, 1, Len(AUTO_)) = AUTO_

KeyA == AUTO_ \o ReplaceNonAlnum(UrlA.hostname)

\* C1: with no environment event (no expiry, crash or rejected operation),
\* two overlapping calls that were handed a page for the same session key
\* were handed the same page: one session was created for the key.
C1_OneSessionPerKey ==
  env = 0 =>
    \A c, d \in Callers :
      (/\ c # d
       /\ calls[c].pc = "exec" /\ calls[d].pc = "exec"
       /\ calls[c].sessionId = calls[d].sessionId)
      => calls[c].page = calls[d].page

\* C2: the registry never holds more than MAX_SESSIONS entries.
C2_RegistryBounded == Len(sessions) <= MAX_SESSIONS

\* C3: a call whose key named a session that was expired when the call
\* arrived is never handed that session's page.
C3_NoStaleReuse ==
  \A c \in Callers : calls[c].pc = "exec" => calls[c].page # calls[c].expired

\* C4: two calls in flight whose keys were both minted by getSessionId
\* (no sessionId, no url, two or more sessions) have different keys.
C4_MintedKeysDistinct ==
  \A c, d \in Callers :
    (c # d /\ calls[c].minted /\ calls[d].minted)
    => calls[c].sessionId # calls[d].sessionId

\* C5: when cleanup_resources for one session has completed, the session it
\* tore down is no longer in the registry, whether or not close() threw.
C5_TeardownRemovesEntry ==
  [][\A c \in Callers :
       (calls[c].pc = "closeOne" /\ calls'[c].pc = "done")
       => calls[c].session \notin Contexts(sessions')]_vars

\* C6: with no environment event (no crash, no rejected operation), at most
\* one launched browser is connected: concurrent ensureBrowser calls share
\* one launch.
C6_OneBrowser == env = 0 => Cardinality(Connected) <= 1

\* C7: every registered session's context belongs to the browser instance
\* that the handle holds.
C7_SessionsOnCurrentEngine ==
  \A i \in 1..Len(sessions) : contexts[sessions[i].context].browser = browser

\* C8: a POST whose handler has finished (fresh-context variant) has had
\* exactly one response completed.
C8_ExactlyOneResponse ==
  \A c \in Callers : posts[c].pc = "done" => posts[c].ended = 1

\* The map that enforceSessionLimits scans in the step that takes caller c
\* to its eviction: the registry without an entry under c's own key (the
\* key is absent, or its dead session has just been deleted).
Scanned(c) == Delete(sessions, calls[c].sessionId')

BeginsEviction(c) == calls[c].pc # "evict" /\ calls'[c].pc = "evict"

GetWithoutKeyArrives(c) ==
  /\ ~InFlight(c)
  /\ calls'[c].pc \notin {"idle", "done"}
  /\ calls'[c].name = "get_page_content"
  /\ calls'[c].args.sessionId = <<>>

\* The navigation to host a.io has run and was the last use of any session.
NavigatedA ==
  /\ Has(sessions, KeyA)
  /\ \A d \in Callers : ~InFlight(d)
  /\ \A i \in 1..Len(sessions) : sessions[i].lastUsed <= Get(sessions, KeyA).lastUsed

\* C10 (as stated): after the navigation, get_page_content without
\* sessionId resolves to the navigation's key, whatever else is registered.
C10_ResolvesToNavigated ==
  [][\A c \in Callers :
       (GetWithoutKeyArrives(c) /\ NavigatedA) => calls'[c].sessionId = KeyA]_vars

\* C10 (amended): get_page_content without sessionId resolves to the key of
\* the navigation's session and probes that session's page when it is the
\* only registered session, and is handed the probed page when the probe
\* succeeds; with two or more sessions registered it gets a default_ key.
C10_ResolvesToOnlySession ==
  [][\A c \in Callers :
       /\ (GetWithoutKeyArrives(c) /\ Len(sessions) = 1) =>
            /\ calls'[c].sessionId = sessions[1].key
            /\ calls'[c].pc = "probe"
            /\ calls'[c].session = sessions[1].page
       /\ (GetWithoutKeyArrives(c) /\ Len(sessions) >= 2) =>
            /\ IsFallback(calls'[c].sessionId)
            /\ calls'[c].sessionId # DEFAULT
       /\ (calls[c].pc = "probe" /\ calls'[c].pc = "exec") =>
            calls'[c].page = calls[c].session]_vars

\* C10 witness: get_page_content without sessionId runs on the page of the
\* only registered session, the one of the navigation to a.io.
C10_Witness ==
  \E c \in Callers :
    /\ calls[c].pc = "exec"
    /\ calls[c].name = "get_page_content"
    /\ calls[c].args.sessionId = <<>>
    /\ calls[c].sessionId = KeyA
    /\ Len(sessions) = 1
    /\ sessions[1].key = KeyA
    /\ calls[c].page = sessions[1].page

\* A navigation-class request without sessionId and with a url that parses
\* arrives from client c.
NavigationArrives(c) ==
  /\ ~InFlight(c)
  /\ calls'[c].pc \notin {"idle", "done"}
  /\ calls'[c].name \in {"navigate_to_url", "extract_housesigma_chart"}
  /\ calls'[c].args.sessionId = <<>>
  /\ calls'[c].args.url.present
  /\ calls'[c].args.url.parses

\* C11: a navigation-class call without sessionId whose url parses resolves
\* to 'auto_' followed by the hostname with every character outside
\* a-z, A-Z, 0-9 replaced by '_', whatever the registry holds and whatever
\* the time is; so two calls with the same url resolve to the same key.
C11_AutoKeyFromHostname ==
  [][\A c \in Callers :
       NavigationArrives(c) =>
         LET h == calls'[c].args.url.hostname
             k == calls'[c].sessionId
         IN /\ Len(k) = Len(AUTO_) + Len(h)
            /\ SubSeq(k, 1, Len(AUTO_)) = <<"a", "u", "t", "o", "_">>
            /\ \A i \in 1..Len(h) :
                 k[Len(AUTO_) + i] = (IF h[i] \in Alnum THEN h[i] ELSE "_")
            /\ h = <<"a", ".", "i", "o">> =>
                 k = <<"a", "u", "t", "o", "_", "a", "_", "i", "o">>]_vars

\* C11 witness: extract_housesigma_chart for host a.io has resolved to
\* auto_a_io while the registry holds two other sessions and the clock has
\* moved on.
C11_Witness ==
  \E c \in Callers :
    /\ calls[c].name = "extract_housesigma_chart"
    /\ calls[c].args.sessionId = <<>>
    /\ calls[c].pc \in {"enforce", "evict"}
    /\ calls[c].sessionId = <<"a", "u", "t", "o", "_", "a", "_", "i", "o">>
    /\ Len(sessions) >= 2
    /\ ~Has(sessions, calls[c].sessionId)
    /\ now > 0

\* C13: a call whose browser launch fails ends with an error and leaves the
\* handle null without having added a browser; and a call that reaches
\* ensureBrowser while the handle is null starts a launch.
C13_LaunchFailure ==
  [][\A c \in Callers :
       /\ (calls[c].pc = "launch" /\ calls'[c].pc = "done") =>
            /\ calls'[c].outcome = "error"
            /\ calls'[c].cause = "acquire"
            /\ browser' = 0
            /\ browsers' = browsers
       /\ (/\ calls[c].pc \in {"enforce", "evict"}
           /\ calls'[c].pc # calls[c].pc
           /\ browser = 0) =>
            calls'[c].pc = "launch"]_vars

\* C13 witness: no browser has ever been launched, one call has failed in
\* getSessionContext (so its launch failed), and another call is launching.
C13_Witness ==
  \E c, d \in Callers :
    /\ calls[d].pc = "done"
    /\ calls[d].cause = "acquire"
    /\ calls[d].outcome = "error"
    /\ Len(browsers) = 0
    /\ browser = 0
    /\ calls[c].pc = "launch"

\* C14: the same tool call, in progress over stdio and over HTTP, runs its
\* page operation with the same timeout and the same wait.
C14_SameTimeoutsAndWaits ==
  \A c, d \in Callers :
    (/\ Transport(c) # Transport(d)
     /\ calls[c].pc = "exec" /\ calls[d].pc = "exec"
     /\ calls[c].name = calls[d].name
     /\ calls[c].args = calls[d].args)
    => /\ calls[c].timeout = calls[d].timeout
       /\ calls[c].wait = calls[d].wait

\* C16: the response to a click_element whose selector never matched (the
\* wait timed out) differs, in status or error code, from the response the
\* same handler gives to a tool that failed on a dead page.
C16_TimeoutHasItsOwnKind ==
  \A c \in Callers :
    (calls[c].pc = "done" /\ calls[c].cause = "timeout") =>
      LET other == ToolDone(c, calls[c], FALSE, "page") IN
        <<calls[c].status, calls[c].code>> # <<other.status, other.code>>

\* C17: a tool call is rejected as `Unknown tool` exactly when its name is
\* not one tools/list returns: every listed tool is executed, and every
\* tool that is executed (cleanup_resources too) is listed.
C17_ListedIffDispatched ==
  [][\A c \in Callers :
       (InFlight(c) /\ calls'[c].pc = "done" /\ calls'[c].cause # "acquire") =>
         (calls[c].name \in toolsList <=> calls'[c].cause # "unknownTool")]_vars

\* A request without sessionId that is not a navigation-class call with a
\* url arrives from client c.
FallbackArrives(c) ==
  /\ ~InFlight(c)
  /\ calls'[c].pc \notin {"idle", "done"}
  /\ calls'[c].args.sessionId = <<>>
  /\ ~(calls'[c].args.url.present /\ calls'[c].name \in NavigationTools)

\* C20: such a call resolves to 'default' when the registry is empty and to
\* the key of the only session when the registry holds one.
C20_DefaultOrSingle ==
  [][\A c \in Callers :
       FallbackArrives(c) =>
         /\ Len(sessions) = 0 =>
              calls'[c].sessionId = <<"d", "e", "f", "a", "u", "l", "t">>
         /\ Len(sessions) = 1 => calls'[c].sessionId = sessions[1].key]_vars

\* C20 witness: the registry holds one session, created under 'default' by
\* a call that found the registry empty, and get_page_content without
\* sessionId has resolved to it.
C20_Witness ==
  \E c \in Callers :
    /\ calls[c].pc = "probe"
    /\ calls[c].name = "get_page_content"
    /\ calls[c].args.sessionId = <<>>
    /\ Len(sessions) = 1
    /\ sessions[1].key = DEFAULT
    /\ calls[c].sessionId = DEFAULT

EntersEnforce(c) ==
  /\ calls[c].pc \in {"idle", "done", "probe"}
  /\ calls'[c].pc \in {"enforce", "evict"}

\* C15: a request for a new key that finds the registry at capacity evicts
\* a session, the one with the smallest lastUsed; when its close has
\* settled exactly that entry is removed and every other entry is as it
\* was; and the eviction closes no context other than the victim's (and
\* those of expired sessions).
C15_EvictsExactlyOne ==
  [][\A c \in Callers :
       /\ (EntersEnforce(c) /\ Len(Scanned(c)) >= MAX_SESSIONS) =>
            /\ calls'[c].pc = "evict"
            /\ Has(Scanned(c), calls'[c].victim)
            /\ \A i \in 1..Len(Scanned(c)) :
                 Get(Scanned(c), calls'[c].victim).lastUsed <= Scanned(c)[i].lastUsed
            /\ \A i \in 1..Len(sessions) :
                 (/\ sessions[i].key # calls'[c].victim
                  /\ i \notin expiredSessions(sessions)) =>
                   contexts'[sessions[i].context] = contexts[sessions[i].context]
       /\ (calls[c].pc = "evict" /\ calls'[c].pc # "evict") =>
            /\ sessions' = Delete(sessions, calls[c].victim)
            /\ \A x \in DOMAIN contexts :
                 x # calls[c].session => contexts'[x] = contexts[x]]_vars

\* C18: once a termination signal has arrived the process exits, with code
\* 0; and when it has exited, close() has been called on the context of
\* every session that was registered when the signal arrived, and on the
\* browser that the handle held (if it held one).
C18_ExitsAfterTeardown ==
  /\ (shutdown.pc # "running") ~> (shutdown.pc = "exited")
  /\ [](shutdown.pc = "exited" =>
          /\ shutdown.exitCode = 0
          /\ \A x \in shutdown.registered : contexts[x].st # "open"
          /\ shutdown.handle # 0 => shutdown.attempted = shutdown.handle)

\* C18 witness: the process has exited after a shutdown in which the close
\* of a session's context failed; three sessions were registered when the
\* signal arrived and the browser was closed.
C18_Witness ==
  /\ shutdown.pc = "exited"
  /\ shutdown.exitCode = 0
  /\ Cardinality(shutdown.registered) = MAX_SESSIONS
  /\ \E x \in shutdown.registered : contexts[x].st = "closing"
  /\ shutdown.attempted = 1
  /\ env = 1

\* The contexts the model can create.
ContextIds == 1..(MAX_SESSIONS + MaxCalls)

\* Context x belongs to a registered session whose idle age exceeds its
\* timeout.
ExpiredRegistered(x) ==
  \E i \in expiredSessions(sessions) : sessions[i].context = x

\* C19: a registered session whose idle age exceeds the timeout of its key
\* does not stay so for ever: unless it is used again, the periodic sweep
\* removes it from the registry; and the sweep has called close() on the
\* context of every entry it is about to remove.
C19_SweepRemovesExpired ==
  /\ \A x \in ContextIds : ExpiredRegistered(x) ~> ~ExpiredRegistered(x)
  /\ [](\A t \in sweeps : contexts[t.context].st # "open")

\* C19 witness: with no tool call since the three sessions were last used,
\* the idle period has passed and the sweep has closed and removed all of
\* them.
C19_Witness ==
  /\ started = MaxCalls - 1
  /\ \A c \in Callers : calls[c].pc = "idle"
  /\ now > 4 + SESSION_TIMEOUTS(DEFAULT)
  /\ browser = 1
  /\ sessions = <<>>
  /\ sweeps = {}
  /\ \A x \in 1..MAX_SESSIONS : contexts[x].st = "closed"

\* A tools/call request that carries a (non-empty) sessionId arrives from
\* client c.
ExplicitArrives(c) ==
  /\ ~InFlight(c)
  /\ calls'[c].pc \notin {"idle", "done"}
  /\ calls'[c].args.sessionId # <<>>

\* C21: a call that carries a sessionId resolves to exactly that string,
\* for a navigation tool whose url names another host as for a tool without
\* url, and whatever the registry holds.
C21_ExplicitKeyVerbatim ==
  [][\A c \in Callers :
       ExplicitArrives(c) => calls'[c].sessionId = calls'[c].args.sessionId]_vars

\* C21 witness: navigate_to_url with sessionId auto_a_io and a url of host
\* b.io has resolved to auto_a_io while the registry holds two sessions,
\* one of them under the key the url would have given.
C21_Witness ==
  \E c \in Callers :
    /\ calls[c].name = "navigate_to_url"
    /\ calls[c].args.url = UrlB
    /\ calls[c].args.sessionId = <<"a", "u", "t", "o", "_", "a", "_", "i", "o">>
    /\ calls[c].sessionId = <<"a", "u", "t", "o", "_", "a", "_", "i", "o">>
    /\ calls[c].pc \in {"enforce", "evict"}
    /\ Len(sessions) = 2
    /\ Has(sessions, AUTO_ \o ReplaceNonAlnum(UrlB.hostname))

\* The step is the handling of an initialize or tools/list request of
\* client c.
CatalogOrHandshake(c) ==
  /\ started' = started + 1
  /\ ~InFlight(c)
  /\ calls'[c].pc = "done"
  /\ calls'[c].method \in {"initialize", "tools/list"}
  /\ \A d \in Callers \ {c} : calls'[d] = calls[d]

\* C22: handling an initialize or a tools/list request changes neither the
\* registry (no entry added, removed or refreshed) nor the contexts, the
\* pending sweep callbacks or the browser handle.
C22_CatalogLeavesRegistry ==
  [][\A c \in Callers :
       CatalogOrHandshake(c) =>
         /\ sessions' = sessions
         /\ contexts' = contexts
         /\ sweeps' = sweeps
         /\ browser' = browser
         /\ browsers' = browsers]_vars

\* C22 witness: tools/list has been answered while the registry holds a
\* session that is expired and has not been swept: its context is open.
C22_Witness ==
  \E c \in Callers :
    /\ calls[c].pc = "done"
    /\ calls[c].method = "tools/list"
    /\ calls[c].outcome = "result"
    /\ sweeps = {}
    /\ \E i \in expiredSessions(sessions) : contexts[sessions[i].context].st = "open"

\* C23: when the version() probe of the handle throws, ensureBrowser sets
\* the handle to null and goes on to launch, the request is not answered
\* with an error at that point; the launch that resolves gives a new
\* browser, which becomes the handle and is the one ensureBrowser returns.
\* The only request that fails at the probe is one whose probe resolved and
\* found the handle null.
C23_ProbeFailureRelaunches ==
  [][\A c \in Callers :
       /\ (calls[c].pc = "version" /\ calls'[c].pc = "launch")
          => /\ browser' = 0
             /\ calls'[c].stale = calls[c].browserInstance
       /\ (calls[c].pc = "version" /\ calls'[c].pc = "done") => browser = 0
       /\ (calls[c].stale # 0 /\ calls[c].pc = "launch" /\ calls'[c].pc = "newContext")
          => /\ Len(browsers') = Len(browsers) + 1
             /\ browsers'[Len(browsers')] = "connected"
             /\ browser' = Len(browsers')
             /\ calls'[c].browserInstance = Len(browsers')
             /\ calls'[c].browserInstance # calls[c].stale]_vars

\* C23 witness: the probe of the first browser threw (the browser had
\* crashed and its 'disconnected' event had not been delivered yet), and
\* ensureBrowser returned a second, connected browser, which is the handle.
C23_Witness ==
  \E c \in Callers :
    /\ calls[c].stale = 1
    /\ calls[c].pc = "newContext"
    /\ calls[c].browserInstance = 2
    /\ browser = 2
    /\ browsers[1] # "connected"
    /\ browsers[2] = "connected"

\* getSessionContext returns a page to the handler of client c.
Acquires(c) == calls[c].pc \in {"probe", "newPage"} /\ calls'[c].pc = "exec"

\* C24: when getSessionContext hands a session to a tool call (the call can
\* only succeed after that), the lastUsed of that session is the time of
\* that moment; and from one state to the next the lastUsed of a session
\* object, and of the entry under a key, does not decrease.
C24_LastUsedRefreshedAndMonotone ==
  [][/\ \A c \in Callers :
          Acquires(c) =>
            \A i \in 1..Len(sessions') :
              sessions'[i].context = calls'[c].page => sessions'[i].lastUsed = now'
     /\ \A i \in 1..Len(sessions), j \in 1..Len(sessions') :
          (sessions[i].context = sessions'[j].context \/ sessions[i].key = sessions'[j].key)
          => sessions'[j].lastUsed >= sessions[i].lastUsed]_vars

\* C24 witness: the first session is in use by a call that found it in the
\* registry after a second session had been created (no other call has run
\* since this one began), and its lastUsed is the present time.
C24_Witness ==
  \E c \in Callers :
    /\ calls[c].pc = "exec"
    /\ calls[c].alone
    /\ calls[c].page = 1
    /\ Len(contexts) >= 2
    /\ now > 2
    /\ \E i \in 1..Len(sessions) :
         /\ sessions[i].context = 1
         /\ sessions[i].lastUsed = now

\* C25: an extract_housesigma_chart that captured no chart API response and
\* met no engine fault is answered with a result whose payload reports
\* success and carries no error and no data.
C25_NoDataIsEmptySuccess ==
  \A c \in Callers :
    (/\ calls[c].pc = "done"
     /\ calls[c].payload.tool = "extract_housesigma_chart"
     /\ calls[c].payload.captured = 0
     /\ ~calls[c].payload.fault)
    => /\ calls[c].outcome = "result"
       /\ calls[c].payload.success
       /\ calls[c].payload.error = ""
       /\ calls[c].payload.chartData = 0

\* C26: two entries of the registry never hold the same context or the same
\* page.
C26_ExclusiveOwnership ==
  \A i, j \in 1..Len(sessions) :
    i # j => /\ sessions[i].context # sessions[j].context
             /\ sessions[i].page # sessions[j].page

\* C26 witness: the registry is full, and two calls that overlap are
\* running their tools on the pages of two of its sessions.
C26_Witness ==
  /\ Len(sessions) = MAX_SESSIONS
  /\ \E c, d \in Callers :
       /\ c # d
       /\ calls[c].pc = "exec" /\ calls[d].pc = "exec"
       /\ calls[c].page # calls[d].page
       /\ {calls[c].page, calls[d].page} \subseteq {sessions[i].page : i \in 1..Len(sessions)}

\* The step belongs to the idle sweep (the expiry scan calls close() or a
\* callback of it deletes an entry) or to a capacity eviction (close() is
\* called on the victim, or the victim's entry is deleted).
SweepOrEvictionStep ==
  \/ sweeps' # sweeps
  \/ \E d \in Callers : calls[d].pc # "evict" /\ calls'[d].pc = "evict"
  \/ \E d \in Callers : calls[d].pc = "evict" /\ calls'[d].pc # "evict"

\* C27: while a tool call is running on the page of a session, no step of
\* the idle sweep or of a capacity eviction calls close() on that session's
\* context or removes the session from the registry.
C27_InFlightSessionKept ==
  [][\A c \in Callers :
       (calls[c].pc = "exec" /\ calls'[c].pc = "exec" /\ SweepOrEvictionStep)
       => /\ contexts[calls[c].page].st = "open"
               => contexts'[calls[c].page].st = "open"
          /\ calls[c].page \in Contexts(sessions)
               => calls[c].page \in Contexts(sessions')]_vars

Entries(m) == {m[i] : i \in 1..Len(m)}

\* C28: the step in which a teardown (a sweep callback, an eviction, a
\* cleanup of one session) resumes after its close() and deletes, removes
\* no entry other than the session object it closed: an entry that holds
\* another context, registered under the same key meanwhile, stays.
C28_TeardownRemovesOnlyItsSession ==
  [][/\ \A t \in sweeps \ sweeps' :
          \A e \in Entries(sessions) :
            e.context # t.context => e \in Entries(sessions')
     /\ \A d \in Callers :
          (calls[d].pc \in {"evict", "closeOne"} /\ calls'[d].pc # calls[d].pc)
          => \A e \in Entries(sessions) :
               e.context # calls[d].session => e \in Entries(sessions')]_vars

\* Client c is inside getSessionContext.
Acquiring(c) ==
  calls[c].pc \in {"probe", "evict", "enforce", "version", "launch", "newContext", "newPage"}

\* C29: when no call is inside getSessionContext, every context that is
\* open on a connected browser (opened, close() not called on it) is the
\* context of exactly one registry entry.
C29_NoOrphanedContext ==
  (\A c \in Callers : ~Acquiring(c)) =>
    \A x \in DOMAIN contexts :
      PageHealthy(x) => Cardinality({i \in 1..Len(sessions) : sessions[i].context = x}) = 1

\* C30: an entry that a callback of the sweep deletes is expired at that
\* moment: its idle age exceeds the timeout of its key.  (An entry whose
\* lastUsed was refreshed since the scan is not deleted.)
C30_SweepRemovesOnlyExpired ==
  [][(sweeps' # sweeps /\ sweeps' \subseteq sweeps) =>
       \A e \in Entries(sessions) \ Entries(sessions') :
         now - e.lastUsed > SESSION_TIMEOUTS(e.key)]_vars

\* C31: the 'disconnected' event of a browser that is no longer the handle
\* (another browser is) leaves the handle as it is and leaves the sessions
\* of the handle's browser registered.
C31_LateDisconnectIgnored ==
  [][\A b \in DOMAIN browsers :
       (/\ browsers[b] = "disconnecting" /\ browsers'[b] = "disconnected"
        /\ browser # 0 /\ browser # b)
       => /\ browser' = browser
          /\ \A e \in Entries(sessions) :
               contexts[e.context].browser = browser => e \in Entries(sessions')]_vars

\* The step is one of cleanup_resources for client c: its start, or the
\* resumption of one of its awaits.
CleanupStep(c) ==
  \/ ~InFlight(c) /\ calls'[c].pc \in {"closeOne", "closeAll"}
  \/ /\ calls[c].pc \in {"closeOne", "closeAll", "browserClose"}
     /\ calls'[c].pc # calls[c].pc

\* The sessionId of that cleanup_resources call.
CleanupKey(c) ==
  IF InFlight(c) THEN calls[c].args.sessionId ELSE calls'[c].args.sessionId

\* C32: a cleanup_resources that carries a sessionId leaves the browser
\* handle and the browsers alone, keeps every entry registered under
\* another key, and calls close() on no context but that of the entry under
\* its key; so it changes nothing when its key is not registered.
C32_CleanupOneTouchesOnlyThat ==
  [][\A c \in Callers :
       (CleanupStep(c) /\ CleanupKey(c) # <<>>) =>
         /\ browser' = browser
         /\ browsers' = browsers
         /\ \A e \in Entries(sessions) :
              e.key # CleanupKey(c) => e \in Entries(sessions')
         /\ \A x \in DOMAIN contexts :
              (\A e \in Entries(sessions) : e.key = CleanupKey(c) => e.context # x)
              => contexts'[x] = contexts[x]]_vars

\* The tool name of the request of client c that the step belongs to.
StepTool(c) == IF InFlight(c) THEN calls[c].name ELSE calls'[c].name

\* The step is one of a tools/call of client c whose tool name has no case
\* in the tool switch (and is not cleanup_resources).
UnknownToolStep(c) ==
  /\ calls'[c].pc # calls[c].pc
  /\ StepTool(c) \notin DispatchedTools \cup {"cleanup_resources", ""}

\* C33: a tools/call for a tool without a case in the switch is answered
\* with an error, and no step of it changes the registry: no entry is
\* added, removed or refreshed.
C33_UnknownToolLeavesRegistry ==
  [][\A c \in Callers :
       UnknownToolStep(c) =>
         /\ sessions' = sessions
         /\ calls'[c].pc = "done" => calls'[c].outcome = "error"]_vars

\* getSessionContext of client c throws in this step: the launch,
\* newContext or newPage rejected.
CreationFails(c) ==
  /\ calls[c].pc \in {"launch", "newContext", "newPage"}
  /\ calls'[c].pc = "done"
  /\ calls'[c].cause = "acquire"

\* C34: when getSessionContext fails while creating a session, the call
\* has not evicted a session that was not expired, and the context it
\* opened (if it got that far) is not left open.
C34_FailedCreationLeavesNoTrace ==
  [][\A c \in Callers :
       CreationFails(c) =>
         /\ ~calls[c].evictedLive
         /\ calls[c].context # 0 => contexts'[calls[c].context].st # "open"]_vars

\* C35: two navigation-class calls without sessionId whose urls have
\* different hostnames resolve to different session keys.
C35_DistinctHostsDistinctKeys ==
  \A c, d \in Callers :
    (/\ calls[c].pc = "resolved" /\ calls[d].pc = "resolved"
     /\ calls[c].args.url.hostname # calls[d].args.url.hostname)
    => calls[c].sessionId # calls[d].sessionId

\* C36: in the single-page variant no call reaches a page operation while
\* currentPage is unset, and at most one browser is launched.
C36_PageDefinedOneBrowser ==
  /\ \A c \in Callers : calls[c].pc = "pageOperation" => calls[c].page # 0
  /\ Len(browsers) <= 1

(***************************************************************************)
(* The variants that open a fresh context for every call: handleToolCall,  *)
(* the CallTool handler built on createFreshContext, and the REST          *)
(* endpoints /fill-form, /smart-fill-form and /extract-data (the three     *)
(* endpoints have the same try/catch shape; /fill-form stands for them).   *)
(* calls[c].method is the variant, calls[c].context the context opened     *)
(* for the call, calls[c].session is 1 once the handler's own `context`    *)
(* variable holds it, and calls[c].outcome the outcome the handler will    *)
(* answer with once context.close() has settled.                           *)
(***************************************************************************)
PerCallVariants == {"handleToolCall", "CallTool", "/fill-form"}

\* The handler is left with an error before any close is awaited.
PerCallThrow(rec) == Respond(rec, "error", IF rec.method = "/fill-form" THEN 500 ELSE 0, 0, "tool")

\* browser.newContext() is called on browser b.
PerCallNewContext(rec, b) == [rec EXCEPT !.pc = "perCallNewContext", !.browserInstance = b]

\* A request arrives: initBrowser / ensureBrowser up to its first await.
\* Only ensureBrowser probes a browser that is set.
PerCallStart(c) ==
  /\ ~InFlight(c)
  /\ started < MaxCalls
  /\ started' = started + 1
  /\ \E v \in PerCallVariants :
       LET rec == [IdleCall EXCEPT !.method = v] IN
       calls' = [calls EXCEPT ![c] =
         IF browser = 0 THEN [rec EXCEPT !.pc = "perCallLaunch"]
         ELSE IF v = "CallTool"
           THEN [rec EXCEPT !.pc = "perCallVersion", !.browserInstance = browser]
           ELSE PerCallNewContext(rec, browser)]
  /\ UNCHANGED <<now, browser, browsers, sessions, contexts, sweeps, env, posts, shutdown, currentPage>>

\* `await browser.version()` settles in ensureBrowser: the browser is
\* connected, the probe resolves and newContext is called on it.
PerCallVersionSettle(c) ==
  LET rec == calls[c] IN
  /\ rec.pc = "perCallVersion"
  /\ calls' = [calls EXCEPT ![c] = PerCallNewContext(rec, rec.browserInstance)]
  /\ UNCHANGED <<now, browser, browsers, sessions, contexts, sweeps, started, env, posts, shutdown, currentPage>>

\* `browser = await chromium.launch(...)` settles.
PerCallLaunchSettle(c) ==
  LET rec == calls[c] IN
  /\ rec.pc = "perCallLaunch"
  /\ \E ok \in Healthy :
       /\ env' = env + Fault(TRUE, ok)
       /\ IF ok
         THEN /\ browsers' = Append(browsers, "connected")
              /\ browser' = Len(browsers) + 1
              /\ calls' = [calls EXCEPT ![c] = PerCallNewContext(rec, Len(browsers) + 1)]
         ELSE /\ browsers' = browsers
              /\ browser' = browser
              /\ calls' = [calls EXCEPT ![c] = PerCallThrow(rec)]
  /\ UNCHANGED <<now, sessions, contexts, sweeps, started, posts, shutdown, currentPage>>

\* `await ...newContext()` settles.  In handleToolCall the result is
\* assigned to the handler's `context`; in /fill-form to a const of the
\* try block; in createFreshContext to a local of that function.
PerCallNewContextSettle(c) ==
  LET rec == calls[c] IN
  /\ rec.pc = "perCallNewContext"
  /\ \E ok \in Healthy :
       /\ env' = env + Fault(TRUE, ok)
       /\ IF ok
         THEN /\ contexts' = Append(contexts,
                   [browser |-> rec.browserInstance, st |-> "open"])
              /\ calls' = [calls EXCEPT ![c] =
                   [rec EXCEPT !.pc = "perCallNewPage", !.context = Len(contexts) + 1,
                               !.session = IF rec.method = "handleToolCall" THEN 1 ELSE 0]]
         ELSE /\ contexts' = contexts
              /\ calls' = [calls EXCEPT ![c] = PerCallThrow(rec)]
  /\ UNCHANGED <<now, browser, browsers, sessions, sweeps, started, posts, shutdown, currentPage>>

\* The handler leaves its try block with outcome `outcome`: the finally of
\* handleToolCall and of the CallTool handler calls context.close() when
\* the handler's `context` is set; /fill-form calls it only as the last
\* statement of the try block, and its catch answers 500 without it.
PerCallLeave(rec, ok) ==
  LET closes == IF rec.method = "/fill-form" THEN ok ELSE rec.session = 1 IN
  IF closes
    THEN [rec EXCEPT !.pc = "perCallClose", !.outcome = IF ok THEN "result" ELSE "error"]
    ELSE PerCallThrow(rec)

\* The contexts after the handler left its try block: close() invoked on
\* the call's context exactly when PerCallLeave awaits it.
PerCallLeaveContexts(rec, ok) ==
  IF PerCallLeave(rec, ok).pc = "perCallClose"
    THEN InvokeClose(contexts, {rec.context}) ELSE contexts

\* `await context.newPage()` settles.  In createFreshContext
\* setViewportSize is called next; elsewhere the tool's page operation.
PerCallNewPageSettle(c) ==
  LET rec == calls[c] IN
  /\ rec.pc = "perCallNewPage"
  /\ \E ok \in Healthy :
       /\ env' = env + Fault(TRUE, ok)
       /\ IF ok
         THEN /\ contexts' = contexts
              /\ calls' = [calls EXCEPT ![c] =
                   [rec EXCEPT !.page = rec.context,
                               !.pc = IF rec.method = "CallTool"
                                        THEN "perCallViewport" ELSE "perCallOperation"]]
         ELSE /\ contexts' = PerCallLeaveContexts(rec, FALSE)
              /\ calls' = [calls EXCEPT ![c] = PerCallLeave(rec, FALSE)]
  /\ UNCHANGED <<now, browser, browsers, sessions, sweeps, started, posts, shutdown, currentPage>>

\* `await page.setViewportSize(...)` settles in createFreshContext; when
\* it resolves the function returns and the handler's destructuring
\* assignment sets its `context`.
PerCallViewportSettle(c) ==
  LET rec == calls[c] IN
  /\ rec.pc = "perCallViewport"
  /\ \E ok \in Healthy :
       /\ env' = env + Fault(TRUE, ok)
       /\ IF ok
         THEN /\ contexts' = contexts
              /\ calls' = [calls EXCEPT ![c] =
                   [rec EXCEPT !.pc = "perCallOperation", !.session = 1]]
         ELSE /\ contexts' = PerCallLeaveContexts(rec, FALSE)
              /\ calls' = [calls EXCEPT ![c] = PerCallLeave(rec, FALSE)]
  /\ UNCHANGED <<now, browser, browsers, sessions, sweeps, started, posts, shutdown, currentPage>>

\* The tool's page operations settle (the switch of the handler, or the
\* goto/fill/click/content sequence of /fill-form).
PerCallOperationSettle(c) ==
  LET rec == calls[c] IN
  /\ rec.pc = "perCallOperation"
  /\ \E ok \in Healthy :
       /\ env' = env + Fault(TRUE, ok)
       /\ contexts' = PerCallLeaveContexts(rec, ok)
       /\ calls' = [calls EXCEPT ![c] = PerCallLeave(rec, ok)]
  /\ UNCHANGED <<now, browser, browsers, sessions, sweeps, started, posts, shutdown, currentPage>>

\* `await context.close()` settles and the response is produced: the
\* finally swallows a rejected close; in /fill-form a rejected close lands
\* in the catch, which answers 500.
PerCallCloseSettle(c) ==
  LET rec == calls[c] IN
  /\ rec.pc = "perCallClose"
  /\ \E ok \in Healthy :
       /\ env' = env + Fault(TRUE, ok)
       /\ contexts' = SettleClose(contexts, rec.context, ok)
       /\ calls' = [calls EXCEPT ![c] =
            IF rec.method = "/fill-form"
              THEN (IF ok THEN Respond(rec, "result", 200, 0, "") ELSE PerCallThrow(rec))
              ELSE Respond(rec, rec.outcome, 0, 0, IF rec.outcome = "error" THEN "tool" ELSE "")]
  /\ UNCHANGED <<now, browser, browsers, sessions, sweeps, started, posts, shutdown, currentPage>>

NextPerCall ==
  \/ \E c \in Callers : PerCallStart(c)
  \/ \E c \in Callers : PerCallVersionSettle(c)
  \/ \E c \in Callers : PerCallLaunchSettle(c)
  \/ \E c \in Callers : PerCallNewContextSettle(c)
  \/ \E c \in Callers : PerCallNewPageSettle(c)
  \/ \E c \in Callers : PerCallViewportSettle(c)
  \/ \E c \in Callers : PerCallOperationSettle(c)
  \/ \E c \in Callers : PerCallCloseSettle(c)

SpecPerCall == Init /\ [][NextPerCall]_vars

\* Client c's call is answered in this step.
PerCallAnswered(c) ==
  /\ calls[c].method \in PerCallVariants
  /\ InFlight(c)
  /\ calls'[c].pc = "done"

\* C37: in the variants that open a fresh context per call, when a call's
\* response is produced, close has been invoked on the context opened for
\* it, whether the call succeeded or failed.
C37_ContextClosedBeforeResponse ==
  [][\A c \in Callers :
       (PerCallAnswered(c) /\ calls[c].context # 0)
         => contexts'[calls[c].context].st # "open"]_vars

(***************************************************************************)
(* The ids of JSON-RPC messages over HTTP (src/server.js lines 1771-1970). *)
(* A JSON value is written as its JSON text.  posts[c] is here the POST of *)
(* client c: its body, the handler's position, and the response written.   *)
(***************************************************************************)
Ids == {"0", "1", "\"a\""}
NullId == "null"

\* JavaScript's `v || null` on a JSON value.
OrNull(v) == IF v \in {"0", "\"\"", "null", "false"} THEN NullId ELSE v

Methods == {"initialize", "notifications/initialized", "tools/list", "tools/call",
            "unknown/method"}

\* The bodies a client posts: text that is not JSON, an object that is not
\* JSON-RPC 2.0, and requests of every method with every id; a tools/call
\* may lack its params.
Bodies ==
  {[parses |-> FALSE, jsonrpc |-> "", id |-> NullId, method |-> "", params |-> FALSE]}
  \cup {[parses |-> TRUE, jsonrpc |-> "1.0", id |-> i, method |-> "tools/list",
         params |-> FALSE] : i \in Ids}
  \cup {[parses |-> TRUE, jsonrpc |-> "2.0", id |-> i, method |-> m, params |-> TRUE] :
          i \in Ids, m \in Methods}
  \cup {[parses |-> TRUE, jsonrpc |-> "2.0", id |-> i, method |-> "tools/call",
         params |-> FALSE] : i \in Ids}

\* res.end(JSON.stringify({jsonrpc: '2.0', id, ...})) with the given status.
McpAnswer(body, status, id, outcome, code) ==
  [pc |-> "answered", body |-> body,
   response |-> [rpc |-> TRUE, status |-> status, id |-> id, outcome |-> outcome,
                 code |-> code]]

\* A response without a JSON-RPC envelope: the 400 body
\* {error: 'Invalid JSON-RPC request'} and the empty 200 of
\* notifications/initialized.
McpPlain(body, status) ==
  [pc |-> "answered", body |-> body,
   response |-> [rpc |-> FALSE, status |-> status, id |-> NullId, outcome |-> "",
                 code |-> 0]]

\* The outer catch: 500, with the id read again from the body by
\* `JSON.parse(body)?.id || null`, and null when that parse throws.
McpCatch(body) ==
  McpAnswer(body, 500, IF body.parses THEN OrNull(body.id) ELSE NullId, "error",
            INTERNAL_ERROR)

\* A POST to /mcp has been read: the `end` callback up to its first await.
McpPost(c) ==
  /\ posts[c].pc \in {"idle", "answered"}
  /\ started < MaxCalls
  /\ started' = started + 1
  /\ \E body \in Bodies :
       posts' = [posts EXCEPT ![c] =
         IF ~body.parses THEN McpCatch(body)
         ELSE IF body.jsonrpc # "2.0" THEN McpPlain(body, 400)
         ELSE IF body.method = "notifications/initialized" THEN McpPlain(body, 200)
         ELSE IF body.method \in {"initialize", "tools/list"}
           THEN McpAnswer(body, 200, body.id, "result", 0)
         ELSE IF body.method = "tools/call"
           THEN (IF body.params
                   THEN [pc |-> "getSessionContext", body |-> body]
                   ELSE McpCatch(body))
         ELSE McpAnswer(body, 200, body.id, "error", METHOD_NOT_FOUND)]
  /\ UNCHANGED <<now, browser, browsers, sessions, contexts, sweeps, calls, env, shutdown, currentPage>>

\* `await getSessionContext(sessionId)` settles; it is outside the try
\* around the tool switch, so its rejection lands in the outer catch.
McpAcquireSettle(c) ==
  /\ posts[c].pc = "getSessionContext"
  /\ \E ok \in BOOLEAN :
       posts' = [posts EXCEPT ![c] =
         IF ok THEN [pc |-> "tool", body |-> posts[c].body] ELSE McpCatch(posts[c].body)]
  /\ UNCHANGED <<now, browser, browsers, sessions, contexts, sweeps, calls, started, env, shutdown, currentPage>>

\* The tool's page operations settle inside the try around the switch.
McpToolSettle(c) ==
  /\ posts[c].pc = "tool"
  /\ \E ok \in BOOLEAN :
       posts' = [posts EXCEPT ![c] =
         IF ok THEN McpAnswer(posts[c].body, 200, posts[c].body.id, "result", 0)
         ELSE McpAnswer(posts[c].body, 200, posts[c].body.id, "error", INTERNAL_ERROR)]
  /\ UNCHANGED <<now, browser, browsers, sessions, contexts, sweeps, calls, started, env, shutdown, currentPage>>

NextMcp ==
  \/ \E c \in Callers : McpPost(c)
  \/ \E c \in Callers : McpAcquireSettle(c)
  \/ \E c \in Callers : McpToolSettle(c)

SpecMcp == Init /\ [][NextMcp]_vars

\* C38: every JSON-RPC response carries the id of the request it answers,
\* on the result path and on every error path, for every id (0 included);
\* its id is null only when the request body could not be parsed.
C38_ResponseCarriesRequestId ==
  \A c \in Callers :
    (posts[c].pc = "answered" /\ posts[c].response.rpc)
      => posts[c].response.id = (IF posts[c].body.parses THEN posts[c].body.id ELSE NullId)
====
